---------------------------- MODULE Spec2Model ----------------------------
(***************************************************************************)
(* Model of go-promhttp (client.go): the metric-instrumented outbound      *)
(* HTTP client.  Four specifications share the module:                      *)
(*   Spec         requests of every method and outcome running              *)
(*                concurrently through the decorator chain of one client;   *)
(*   SpecClients  requests running concurrently through the clients of      *)
(*                three ForRecipient calls, the third one rejected;          *)
(*   SpecFactory  sequences of ForRecipient calls against one registry;      *)
(*   SpecSize     computeApproximateRequestSize on bounded requests.         *)
(* Go strings are sequences of bytes; a byte is its integer code.           *)
(***************************************************************************)
EXTENDS Integers, Sequences, FiniteSets, Bags, TLC

VARIABLES
    base,       \* the base *http.Client embedded in Client
    base0,      \* history: the base client as it was before the first call
    namespace,  \* Client.Namespace
    registry,   \* Client.Registerer
    calls,      \* results of the ForRecipient calls made so far, in order
    metrics,    \* the outgoingInstrumentation created by each call
    reqs,       \* the bag of requests issued through the instrumented clients
    sreq,       \* SpecSize: the request handed to the size estimator
    sres        \* SpecSize: the last operation and its results

vars == <<base, base0, namespace, registry, calls, metrics, reqs, sreq, sres>>

-----------------------------------------------------------------------------
(* Bounds *)

\* requests issued through the clients in Spec and SpecClients
NReq == 2
\* ForRecipient calls in SpecFactory
MaxCalls == 3
\* SpecSize: appends of one byte to a header value
MaxAppend == 2

-----------------------------------------------------------------------------
(* Strings *)

GET == <<71, 69, 84>>
get == <<103, 101, 116>>
HTTP11 == <<72, 84, 84, 80, 47, 49, 46, 49>>

\* strings.ToLower on ASCII: 'A'..'Z' move to 'a'..'z', other bytes stay
ToLower(s) == [k \in 1..Len(s) |-> IF s[k] >= 65 /\ s[k] <= 90 THEN s[k] + 32 ELSE s[k]]

RECURSIVE Digits(_)
Digits(n) == IF n < 10 THEN <<48 + n>> ELSE Append(Digits(n \div 10), 48 + (n % 10))

\* fmt.Sprint of an int: decimal digits, with a leading '-' when negative
Sprint(n) == IF n < 0 THEN <<45>> \o Digits(-n) ELSE Digits(n)

\* the labels with the method as the caller wrote it
LabelsRawMethod(statusCode, method) == [code |-> Sprint(statusCode), method |-> method]

\* prometheus.Labels{"code": ..., "method": ...}
Labels(statusCode, method) == [code |-> Sprint(statusCode), method |-> ToLower(method)]

-----------------------------------------------------------------------------
(* Instruments *)

subsystemHTTPOutgoing == "http_outgoing"

\* one more sample in series k of a counter or histogram vector
Observe(vec, k) == IF k \in DOMAIN vec THEN [vec EXCEPT ![k] = @ + 1] ELSE vec @@ (k :> 1)

Opts(ns, name, constLabels, labelNames) ==
    [Namespace |-> ns, Subsystem |-> subsystemHTTPOutgoing, Name |-> name,
     ConstLabels |-> constLabels, labelNames |-> labelNames]

\* a vector with no series yet: the empty function
NoSeries == <<>>

NewOutgoingInstrumentation(ns, constLabels) ==
    [requests |-> [desc |-> Opts(ns, "requests_total", constLabels, <<"code", "method">>),
                   kind |-> "counter", v |-> NoSeries],
     requestSize |-> [desc |-> Opts(ns, "request_size_histogram_bytes", constLabels, <<"code", "method">>),
                      kind |-> "histogram", v |-> NoSeries],
     responseContentLength |-> [desc |-> Opts(ns, "response_content_length_histogram", constLabels, <<"code", "method">>),
                                kind |-> "histogram", v |-> NoSeries],
     duration |-> [desc |-> Opts(ns, "request_duration_histogram_seconds", constLabels, <<"method">>),
                   kind |-> "histogram", v |-> NoSeries],
     dnsDuration |-> [desc |-> Opts(ns, "dns_duration_histogram_seconds", constLabels, <<"event">>),
                      kind |-> "histogram", v |-> NoSeries],
     tlsDuration |-> [desc |-> Opts(ns, "tls_duration_histogram_seconds", constLabels, <<"event">>),
                      kind |-> "histogram", v |-> NoSeries],
     inflight |-> [desc |-> Opts(ns, "in_flight_requests", constLabels, <<>>),
                   kind |-> "gauge", v |-> 0]]

\* Describe leaving the TLS histogram out
DescribeOrderWithoutTLS ==
    <<"duration", "requests", "dnsDuration", "inflight", "requestSize", "responseContentLength">>

\* the fields Describe delegates to, in the order of its statements
DescribeOrder ==
    <<"duration", "requests", "dnsDuration", "tlsDuration", "inflight", "requestSize",
      "responseContentLength">>

\* Collect visiting the size histograms before the in-flight gauge
CollectOrderSizesFirst ==
    <<"duration", "requests", "dnsDuration", "tlsDuration", "requestSize",
      "responseContentLength", "inflight">>

\* the fields Collect delegates to, in the order of its statements
CollectOrder ==
    <<"duration", "requests", "dnsDuration", "tlsDuration", "inflight", "requestSize",
      "responseContentLength">>

\* outgoingInstrumentation.Describe: the descriptors in the order they are sent
Describe(i) == [n \in 1..Len(DescribeOrder) |-> i[DescribeOrder[n]].desc]

\* outgoingInstrumentation.Collect: the instruments' values in the order they are sent
Collect(i) == [n \in 1..Len(CollectOrder) |-> i[CollectOrder[n]].v]


-----------------------------------------------------------------------------
(* Registry (prometheus.Registerer) *)

\* the nil error, and the nil of the base client's interface-typed fields
Nil == "nil"

\* a pointer is a sequence of length at most one: <<>> is nil
NilPtr == <<>>
Ptr(x) == <<x>>

\* prometheus.BuildFQName: the non-empty parts joined
BuildFQName(ns, subsystem, name) == IF ns = "" THEN <<subsystem, name>> ELSE <<ns, subsystem, name>>

\* a descriptor's identity: fully-qualified name and constant label values
DescID(d) == <<BuildFQName(d.Namespace, d.Subsystem, d.Name), d.ConstLabels>>

\* attempts is a history of the collectors Register was called with
NewRegistry == [descIDs |-> {}, collectors |-> {}, attempts |-> <<>>]

\* a registry that keeps the collector it rejects
RegisterKeepsRejected(reg, id, i) ==
    LET descs == Describe(i)
        ids == {DescID(descs[k]) : k \in 1..Len(descs)}
    IN IF ids \cap reg.descIDs # {} \/ Cardinality(ids) # Len(descs)
       THEN [registry |-> [reg EXCEPT !.attempts = Append(@, id),
                                      !.collectors = @ \cup {id}],
             err |-> "AlreadyRegisteredError"]
       ELSE [registry |-> [descIDs |-> reg.descIDs \cup ids,
                           collectors |-> reg.collectors \cup {id},
                           attempts |-> Append(reg.attempts, id)],
             err |-> Nil]

\* reg.Register(i): rejected when a descriptor of i is already registered;
\* id is the identity (the pointer) of the collector i
Register(reg, id, i) ==
    LET descs == Describe(i)
        ids == {DescID(descs[k]) : k \in 1..Len(descs)}
    IN IF ids \cap reg.descIDs # {} \/ Cardinality(ids) # Len(descs)
       THEN [registry |-> [reg EXCEPT !.attempts = Append(@, id)],
             err |-> "AlreadyRegisteredError"]
       ELSE [registry |-> [descIDs |-> reg.descIDs \cup ids,
                           collectors |-> reg.collectors \cup {id},
                           attempts |-> Append(reg.attempts, id)],
             err |-> Nil]

\* a collection from the registry: Collect of every registered collector;
\* ms gives the outgoingInstrumentation behind each collector identity
Gather(reg, ms) == [id \in reg.collectors |-> Collect(ms[id])]

-----------------------------------------------------------------------------
(* Client factory *)

DefaultTransport == "http.DefaultTransport"

\* the chain with the in-flight layer left out
ChainWithoutInFlight == <<"counter", "trace", "requestSize", "responseContentLength", "duration">>

\* the chain with the duration layer left out
ChainWithoutDuration == <<"inflight", "counter", "trace", "requestSize", "responseContentLength">>

\* the chain with the request-size layer inside the response-size layer
ChainSizesSwapped == <<"inflight", "counter", "trace", "responseContentLength", "requestSize", "duration">>

\* the chain with the counter layer wrapped around the in-flight layer
ChainCounterOutermost == <<"counter", "inflight", "trace", "requestSize", "responseContentLength", "duration">>

\* the decorators wrapped around the transport, outermost first
Chain == <<"inflight", "counter", "trace", "requestSize", "responseContentLength", "duration">>

\* transport := c.Transport; if transport == nil { transport = http.DefaultTransport }
BaseTransport(c) == IF c.Transport = Nil THEN DefaultTransport ELSE c.Transport

\* the client literal without its Timeout field
InstrumentedClientNoTimeout(c, id) ==
    [CheckRedirect |-> c.CheckRedirect,
     Jar |-> c.Jar,
     Timeout |-> 0,
     Transport |-> [layers |-> Chain, next |-> BaseTransport(c), i |-> id]]

\* the client literal with every chain observing into the first call's instruments
InstrumentedClientSharedSet(c, id) ==
    [CheckRedirect |-> c.CheckRedirect,
     Jar |-> c.Jar,
     Timeout |-> c.Timeout,
     Transport |-> [layers |-> Chain, next |-> BaseTransport(c), i |-> 1]]

\* the *http.Client literal returned by instrumentClientWithConstLabels;
\* id names the outgoingInstrumentation the decorators observe into
InstrumentedClient(c, id) ==
    [CheckRedirect |-> c.CheckRedirect,
     Jar |-> c.Jar,
     Timeout |-> c.Timeout,
     Transport |-> [layers |-> Chain, next |-> BaseTransport(c), i |-> id]]

\* instrumentClientWithConstLabels: the returned pair, the instrumentation it
\* created, and the registry and the base client (passed by pointer) after the call
instrumentClientWithConstLabels(ns, c, reg, constLabels, id) ==
    LET i == NewOutgoingInstrumentation(ns, constLabels)
        r == Register(reg, id, i)
    IN [client |-> Ptr(InstrumentedClient(c, id)), err |-> r.err,
        registry |-> r.registry, i |-> i, c |-> c]

\* ForRecipient with a label value that does not depend on the recipient
ForRecipientFixedLabel(ns, c, reg, recipient, id) ==
    instrumentClientWithConstLabels(ns, c, reg, [recipient |-> "recipient"], id)

\* Client.ForRecipient
ForRecipientResult(ns, c, reg, recipient, id) ==
    instrumentClientWithConstLabels(ns, c, reg, [recipient |-> recipient], id)

Recipients == {"billing", "orders", "audit"}
Namespaces == {"app", ""}

\* the base clients a Client may embed
BaseClients ==
    [CheckRedirect : {Nil, "policy"}, Jar : {Nil, "jar"}, Timeout : {0, 30},
     Transport : {Nil, "custom"}]

\* c.ForRecipient(recipient) as a step of the program
ForRecipient(recipient) ==
    /\ Len(calls) < MaxCalls
    /\ LET id == Len(calls) + 1
           out == ForRecipientResult(namespace, base, registry, recipient, id)
       IN /\ calls' = Append(calls, [recipient |-> recipient, client |-> out.client, err |-> out.err])
          /\ metrics' = Append(metrics, out.i)
          /\ registry' = out.registry
          /\ base' = out.c
    /\ UNCHANGED <<base0, namespace, reqs, sreq, sres>>

-----------------------------------------------------------------------------
(* Requests and the approximate size estimator *)

\* url.URL.String() for a URL with a scheme, a host, a path and maybe a query
URLString(u) ==
    u.Scheme \o <<58, 47, 47>> \o u.Host \o u.Path
        \o (IF u.RawQuery = <<>> THEN <<>> ELSE <<63>> \o u.RawQuery)

\* only the first value of a header counted
ValuesLenFirstOnly(values) == IF values = <<>> THEN 0 ELSE Len(Head(values))

RECURSIVE ValuesLen(_)
\* for _, value := range values { s += len(value) }
ValuesLen(values) == IF values = <<>> THEN 0 ELSE Len(Head(values)) + ValuesLen(Tail(values))

RECURSIVE HeaderLen(_, _)
\* for name, values := range r.Header { s += len(name); ... }
HeaderLen(header, names) ==
    IF names = {} THEN 0
    ELSE LET name == CHOOSE n \in names : TRUE
         IN Len(name) + ValuesLen(header[name]) + HeaderLen(header, names \ {name})

computeApproximateRequestSize(r) ==
    LET s1 == IF r.URL # NilPtr THEN Len(URLString(r.URL[1])) ELSE 0
        s2 == s1 + Len(r.Method)
        s3 == s2 + Len(r.Proto)
        s4 == s3 + HeaderLen(r.Header, DOMAIN r.Header)
        s5 == s4 + Len(r.Host)
    IN IF r.ContentLength # -1 THEN s5 + r.ContentLength ELSE s5

-----------------------------------------------------------------------------
(* The decorators *)

\* the part of a layer that runs before it calls next.RoundTrip
\* InstrumentRoundTripperInFlight: gauge.Inc()
PreHook(layer, i) ==
    IF layer = "inflight" THEN [i EXCEPT !.inflight.v = @ + 1] ELSE i

RECURSIVE PreHooks(_, _)
\* the way down the chain, from the outermost layer to the transport
PreHooks(layers, i) ==
    IF layers = <<>> THEN i ELSE PreHooks(Tail(layers), PreHook(Head(layers), i))

RECURSIVE PreEvents(_, _)
\* the instrumentation events of the way down: <<"pre", layer>> for each layer
\* that changes an instrument before it calls next
PreEvents(layers, i) ==
    IF layers = <<>> THEN <<>>
    ELSE (IF PreHook(Head(layers), i) # i THEN << <<"pre", Head(layers)>> >> ELSE <<>>)
            \o PreEvents(Tail(layers), PreHook(Head(layers), i))

\* InstrumentRoundTripperInFlight: defer gauge.Dec()
InFlightDone(i, r, resp, err) ==
    [i |-> [i EXCEPT !.inflight.v = @ - 1], resp |-> resp, err |-> err]

\* InstrumentRoundTripperCounter: counts a round trip that returned no error
CounterDone(i, r, resp, err) ==
    [i |-> IF err = Nil
           THEN [i EXCEPT !.requests.v = Observe(@, Labels(resp[1].StatusCode, r.Method))]
           ELSE i,
     resp |-> resp, err |-> err]

\* the request-size layer without its err == nil test
RequestSizeDoneAlways(i, r, resp, err) ==
    [i |-> [i EXCEPT !.requestSize.v =
              Observe(@, <<Labels(IF err = Nil THEN resp[1].StatusCode ELSE 0, r.Method),
                           computeApproximateRequestSize(r)>>)],
     resp |-> resp, err |-> err]

\* the request-size layer observing the declared body length alone
RequestSizeDoneBodyOnly(i, r, resp, err) ==
    [i |-> IF err = Nil
           THEN [i EXCEPT !.requestSize.v =
                    Observe(@, <<Labels(resp[1].StatusCode, r.Method), r.ContentLength>>)]
           ELSE i,
     resp |-> resp, err |-> err]

\* instrumentRoundTripperRequestSize
RequestSizeDone(i, r, resp, err) ==
    [i |-> IF err = Nil
           THEN [i EXCEPT !.requestSize.v =
                    Observe(@, <<Labels(resp[1].StatusCode, r.Method), computeApproximateRequestSize(r)>>)]
           ELSE i,
     resp |-> resp, err |-> err]

\* the response-size layer failing a response of unknown length
ResponseContentLengthDoneRejectsUnknown(i, r, resp, err) ==
    IF err = Nil /\ resp[1].ContentLength = -1
    THEN [i |-> i, resp |-> NilPtr, err |-> "unknown content length"]
    ELSE [i |-> IF err = Nil
                THEN [i EXCEPT !.responseContentLength.v =
                         Observe(@, <<Labels(resp[1].StatusCode, r.Method), resp[1].ContentLength>>)]
                ELSE i,
          resp |-> resp, err |-> err]

\* the response-size layer observing an unknown length as 0
ResponseContentLengthDoneClamped(i, r, resp, err) ==
    [i |-> IF err = Nil
           THEN [i EXCEPT !.responseContentLength.v =
                    Observe(@, <<Labels(resp[1].StatusCode, r.Method),
                                 IF resp[1].ContentLength < 0 THEN 0 ELSE resp[1].ContentLength>>)]
           ELSE i,
     resp |-> resp, err |-> err]

\* instrumentRoundTripperResponseContentLength
ResponseContentLengthDone(i, r, resp, err) ==
    [i |-> IF err = Nil
           THEN [i EXCEPT !.responseContentLength.v =
                    Observe(@, <<Labels(resp[1].StatusCode, r.Method), resp[1].ContentLength>>)]
           ELSE i,
     resp |-> resp, err |-> err]

\* InstrumentRoundTripperDuration: observes the time since the call of a round
\* trip that returned no error, under the method label alone
DurationDone(i, r, resp, err, elapsed) ==
    [i |-> IF err = Nil
           THEN [i EXCEPT !.duration.v = Observe(@, <<[method |-> ToLower(r.Method)], elapsed>>)]
           ELSE i,
     resp |-> resp, err |-> err]

\* the part of a layer that runs after next.RoundTrip returned (resp, err)
PostHook(layer, i, r, resp, err, elapsed) ==
    CASE layer = "inflight" -> InFlightDone(i, r, resp, err)
      [] layer = "counter" -> CounterDone(i, r, resp, err)
      [] layer = "requestSize" -> RequestSizeDone(i, r, resp, err)
      [] layer = "responseContentLength" -> ResponseContentLengthDone(i, r, resp, err)
      [] layer = "duration" -> DurationDone(i, r, resp, err, elapsed)
      [] OTHER -> [i |-> i, resp |-> resp, err |-> err]

\* InstrumentRoundTripperTrace returns what next returns: it has no code after the call
HasPostHook(layer) == layer # "trace"

\* the hooks of the pph.InstrumentTrace
Trace(i, event, t) ==
    CASE event = "DNSStart" -> [i EXCEPT !.dnsDuration.v = Observe(@, <<[event |-> "dns_start"], t>>)]
      [] event = "DNSDone" -> [i EXCEPT !.dnsDuration.v = Observe(@, <<[event |-> "dns_done"], t>>)]
      [] event = "TLSHandshakeStart" -> [i EXCEPT !.tlsDuration.v = Observe(@, <<[event |-> "tls_handshake_start"], t>>)]
      [] event = "TLSHandshakeDone" -> [i EXCEPT !.tlsDuration.v = Observe(@, <<[event |-> "tls_handshake_done"], t>>)]

-----------------------------------------------------------------------------
(* Requests through an instrumented client *)

Methods == {GET, get}

\* "http", "a.io", "/"
TargetURL == [Scheme |-> <<104, 116, 116, 112>>, Host |-> <<97, 46, 105, 111>>,
              Path |-> <<47>>, RawQuery |-> <<>>]

\* http.NewRequest(method, "http://a.io/", nil)
NewRequest(method) ==
    [Method |-> method, URL |-> Ptr(TargetURL), Proto |-> HTTP11, Header |-> <<>>,
     Host |-> TargetURL.Host, ContentLength |-> 0]

\* what one call of the base transport does: the connection phases it goes
\* through, reported to the trace hooks, and the pair it returns
Behaviours ==
    { [hooks |-> <<"DNSStart", "DNSDone", "TLSHandshakeStart", "TLSHandshakeDone">>,
       resp |-> Ptr([StatusCode |-> 200, ContentLength |-> 42]), err |-> Nil],
      [hooks |-> <<>>,
       resp |-> Ptr([StatusCode |-> 404, ContentLength |-> -1]), err |-> Nil],
      [hooks |-> <<>>,
       resp |-> NilPtr, err |-> "context canceled"] }

\* the decorators of the client that call k returned
Layers(k) == calls[k].client[1].Transport.layers

\* the outgoingInstrumentation the decorators of that client observe into
MetricSetOf(k) == calls[k].client[1].Transport.i

\* the deepest layer above depth d that has code after its call of next
RECURSIVE Above(_, _)
Above(layers, d) ==
    IF d = 0 \/ HasPostHook(layers[d]) THEN d ELSE Above(layers, d - 1)

\* request rq moves on and becomes rq2
Step(rq, rq2) == reqs' = (reqs (-) SetToBag({rq})) (+) SetToBag({rq2})

\* client.Do(req): the request goes down the chain, each layer calling its
\* next once, and the innermost layer calls the base transport (baseCalls
\* counts the calls of the base transport, baseResp and baseErr keep what it
\* returned, log is the history of the request's instrumentation events and of
\* the call and return of the base transport); the callers use the methods ms
StartWith(ms) ==
    /\ BagCardinality(reqs) < NReq
    /\ \E k \in 1..Len(calls), m \in ms, b \in Behaviours :
         /\ metrics' = [metrics EXCEPT ![MetricSetOf(k)] = PreHooks(Layers(k), @)]
         /\ reqs' = reqs (+) SetToBag({[pc |-> "base", k |-> k, r |-> NewRequest(m), b |-> b,
                                        stage |-> 0, depth |-> 0, resp |-> NilPtr, err |-> Nil,
                                        baseCalls |-> 1, baseResp |-> NilPtr, baseErr |-> Nil,
                                        log |-> PreEvents(Layers(k), metrics[MetricSetOf(k)])
                                                    \o << <<"base", "call">> >>]})
    /\ UNCHANGED <<base, base0, namespace, registry, calls, sreq, sres>>

\* callers that write the method in either letter case
Start == StartWith(Methods)

\* callers that write GET
StartGET == StartWith({GET})

\* the base transport enters a connection phase and calls the trace hook the
\* trace layer attached to the request
TraceHook(rq) ==
    /\ rq.pc = "base"
    /\ rq.stage < Len(rq.b.hooks)
    /\ LET t == rq.stage + 1
       IN /\ metrics' = [metrics EXCEPT ![MetricSetOf(rq.k)] =
                            IF \E d \in 1..Len(Layers(rq.k)) : Layers(rq.k)[d] = "trace"
                            THEN Trace(@, rq.b.hooks[t], t)
                            ELSE @]
          /\ Step(rq, [rq EXCEPT !.stage = t,
                                 !.log = IF metrics' # metrics
                                         THEN Append(@, <<"hook", rq.b.hooks[t]>>) ELSE @])
    /\ UNCHANGED <<base, base0, namespace, registry, calls, sreq, sres>>

\* the base transport returns a response or an error
BaseReturn(rq) ==
    /\ rq.pc = "base"
    /\ rq.stage = Len(rq.b.hooks)
    /\ LET d == Above(Layers(rq.k), Len(Layers(rq.k)))
       IN Step(rq, [rq EXCEPT !.pc = IF d = 0 THEN "returned" ELSE "up", !.depth = d,
                              !.resp = rq.b.resp, !.err = rq.b.err,
                              !.baseResp = rq.b.resp, !.baseErr = rq.b.err,
                              !.log = Append(@, <<"base", "return">>)])
    /\ UNCHANGED <<base, base0, namespace, registry, calls, metrics, sreq, sres>>

\* the layer at the request's depth takes the pair its next returned, observes,
\* and returns a pair to the layer above it (the outermost layer: to the caller)
Up(rq) ==
    /\ rq.pc = "up"
    /\ LET out == PostHook(Layers(rq.k)[rq.depth], metrics[MetricSetOf(rq.k)], rq.r, rq.resp,
                            rq.err, rq.stage)
           d == Above(Layers(rq.k), rq.depth - 1)
       IN /\ metrics' = [metrics EXCEPT ![MetricSetOf(rq.k)] = out.i]
          /\ Step(rq, [rq EXCEPT !.pc = IF d = 0 THEN "returned" ELSE "up", !.depth = d,
                                 !.resp = out.resp, !.err = out.err,
                                 !.log = IF metrics' # metrics
                                         THEN Append(@, <<"post", Layers(rq.k)[rq.depth]>>)
                                         ELSE @])
    /\ UNCHANGED <<base, base0, namespace, registry, calls, sreq, sres>>

-----------------------------------------------------------------------------
(* Specifications *)

\* n counts the appends made
NoSizeRun == [op |-> "none", before |-> 0, after |-> 0, n |-> 0]

RECURSIVE Factory(_, _)
\* the state after the ForRecipient calls for the recipients rs, in order
Factory(c, rs) ==
    IF rs = <<>>
    THEN [registry |-> NewRegistry, calls |-> <<>>, metrics |-> <<>>]
    ELSE LET st == Factory(c, SubSeq(rs, 1, Len(rs) - 1))
             recipient == rs[Len(rs)]
             out == ForRecipientResult("app", c, st.registry, recipient, Len(rs))
         IN [registry |-> out.registry,
             calls |-> Append(st.calls, [recipient |-> recipient, client |-> out.client, err |-> out.err]),
             metrics |-> Append(st.metrics, out.i)]

\* the state after the ForRecipient calls for the recipients rs, no request issued
InitWith(rs) ==
    /\ base = [CheckRedirect |-> Nil, Jar |-> Nil, Timeout |-> 30, Transport |-> Nil]
    /\ base0 = base
    /\ namespace = "app"
    /\ LET st == Factory(base, rs)
       IN /\ registry = st.registry
          /\ calls = st.calls
          /\ metrics = st.metrics
    /\ reqs = EmptyBag
    /\ sreq = NewRequest(<<>>)
    /\ sres = NoSizeRun

\* Spec starts with one client built, for "billing"
Init == InitWith(<<"billing">>)

Next ==
    \/ Start
    \/ \E rq \in BagToSet(reqs) : TraceHook(rq)
    \/ \E rq \in BagToSet(reqs) : BaseReturn(rq)
    \/ \E rq \in BagToSet(reqs) : Up(rq)

Spec == Init /\ [][Next]_vars

\* SpecClients starts with three clients built: for "billing", for "orders",
\* and for "billing" again
InitClients == InitWith(<<"billing", "orders", "billing">>)

NextClients ==
    \/ StartGET
    \/ \E rq \in BagToSet(reqs) : TraceHook(rq)
    \/ \E rq \in BagToSet(reqs) : BaseReturn(rq)
    \/ \E rq \in BagToSet(reqs) : Up(rq)

SpecClients == InitClients /\ [][NextClients]_vars

\* SpecFactory: ForRecipient calls on a Client with any base client, any
\* namespace and an empty registry
InitFactory ==
    /\ base \in BaseClients
    /\ base0 = base
    /\ namespace \in Namespaces
    /\ registry = NewRegistry
    /\ calls = <<>>
    /\ metrics = <<>>
    /\ reqs = EmptyBag
    /\ sreq = NewRequest(<<>>)
    /\ sres = NoSizeRun

NextFactory == \E recipient \in Recipients : ForRecipient(recipient)

SpecFactory == InitFactory /\ [][NextFactory]_vars

-----------------------------------------------------------------------------
(* SpecSize: the size estimator on bounded requests *)

\* "X-A", "Via"
HeaderXA == <<88, 45, 65>>
HeaderVia == <<86, 105, 97>>

Headers ==
    { <<>>,
      (HeaderXA :> <<>>),
      (HeaderXA :> << <<118>> >>),
      (HeaderXA :> << <<>>, <<118, 119>> >>),
      (HeaderXA :> << <<118>> >>) @@ (HeaderVia :> << <<49>>, <<50, 51>> >>) }

SizeRequests ==
    [Method : {<<>>, GET}, URL : {NilPtr, Ptr(TargetURL)}, Proto : {<<>>, HTTP11},
     Header : Headers, Host : {<<>>, TargetURL.Host}, ContentLength : {-2, -1, 0, 42}]

\* the bytes appended to header values: 'a', and a byte outside ASCII
AppendBytes == {97, 233}

InitSize ==
    /\ base = [CheckRedirect |-> Nil, Jar |-> Nil, Timeout |-> 30, Transport |-> Nil]
    /\ base0 = base
    /\ namespace = "app"
    /\ registry = NewRegistry
    /\ calls = <<>>
    /\ metrics = <<>>
    /\ reqs = EmptyBag
    /\ sreq \in SizeRequests
    /\ sres = NoSizeRun

\* computeApproximateRequestSize(sreq)
Estimate ==
    /\ sres.op = "none"
    /\ sres' = [op |-> "estimate", before |-> 0, after |-> computeApproximateRequestSize(sreq),
                n |-> 0]
    /\ UNCHANGED <<base, base0, namespace, registry, calls, metrics, reqs, sreq>>

\* the caller appends byte c to the n-th value of header name and has the
\* request estimated again
AppendToHeaderValue(name, n, c) ==
    /\ sres.op # "none"
    /\ sres.n < MaxAppend
    /\ sreq' = [sreq EXCEPT !.Header[name][n] = Append(@, c)]
    /\ sres' = [op |-> "append", before |-> computeApproximateRequestSize(sreq),
                after |-> computeApproximateRequestSize(sreq'), n |-> sres.n + 1]
    /\ UNCHANGED <<base, base0, namespace, registry, calls, metrics, reqs>>

NextSize ==
    \/ Estimate
    \/ \E name \in DOMAIN sreq.Header : \E n \in 1..Len(sreq.Header[name]) :
         \E c \in AppendBytes : AppendToHeaderValue(name, n, c)

SpecSize == InitSize /\ [][NextSize]_vars

-----------------------------------------------------------------------------
(* Properties of the decorator chain (Spec) *)

\* number of samples in series k
Count(vec, k) == IF k \in DOMAIN vec THEN vec[k] ELSE 0

RECURSIVE SumOver(_, _)
SumOver(f, S) == IF S = {} THEN 0 ELSE LET x == CHOOSE y \in S : TRUE IN f[x] + SumOver(f, S \ {x})

\* number of samples in all series
Total(vec) == SumOver(vec, DOMAIN vec)

put == <<112, 117, 116>>
Code200 == <<50, 48, 48>>
Code404 == <<52, 48, 52>>

\* the series a response with this status to a request with this method belongs to
SeriesOf(statusCode, method) ==
    [code |-> IF statusCode = 200 THEN Code200 ELSE Code404,
     method |-> IF method \in {GET, get} THEN get ELSE put]

AllSeries == [code : {Code200, Code404}, method : {get, put}]

Clients == 1..Len(calls)

\* the requests issued so far
Requests == BagToSet(reqs)

\* the number of requests among rqs
NumberOf(rqs) == SumOver(reqs, rqs)

\* the request is inside the chain: it has entered and not yet returned
InFlight(rq) == rq.pc \in {"base", "up"}

\* the position of a layer in a chain, 0 when the chain lacks it
Index(layers, name) ==
    IF \E d \in 1..Len(layers) : layers[d] = name
    THEN CHOOSE d \in 1..Len(layers) : layers[d] = name
    ELSE 0

\* the named layer has returned for the request
Passed(rq, name) ==
    \/ rq.pc = "returned"
    \/ rq.pc = "up" /\ rq.depth < Index(Layers(rq.k), name)

\* the base transport returned a response for the request
Succeeded(rq) == rq.pc \in {"up", "returned"} /\ rq.baseErr = Nil

\* the base transport returned an error for the request
Failed(rq) == rq.pc \in {"up", "returned"} /\ rq.baseErr # Nil

\* the samples of a histogram in the series with these labels
SeriesCount(vec, labels) == SumOver(vec, {key \in DOMAIN vec : key[1] = labels})

\* C1: at every instant the in-flight gauge of a client equals the number of
\* requests that have entered its chain and not yet returned, whatever their
\* outcome; it is never negative and is back at 0 when all have returned
C1_InFlightGaugeExact ==
    \A k \in Clients :
        /\ metrics[k].inflight.v = NumberOf({rq \in Requests : InFlight(rq) /\ rq.k = k})
        /\ metrics[k].inflight.v >= 0

\* a failed request has returned while another is still in flight on the same
\* client, and the gauge reads 1
C1_Witness ==
    \E rq, rp \in Requests :
        /\ rq.pc = "returned" /\ rq.baseErr = "context canceled"
        /\ InFlight(rp) /\ rp.k = rq.k
        /\ metrics[rq.k].inflight.v = 1

C3_CounterPerResponse ==
    \A k \in Clients :
        /\ DOMAIN metrics[k].requests.v \subseteq AllSeries
        /\ \A s \in AllSeries :
              Count(metrics[k].requests.v, s) =
                  NumberOf({rq \in Requests : /\ Passed(rq, "counter") /\ rq.k = k
                                              /\ Succeeded(rq)
                                              /\ SeriesOf(rq.baseResp[1].StatusCode,
                                                          rq.r.Method) = s})

\* a GET and a get, both answered 200 through the same client, have counted
\* twice into the series (200, get)
C3_Witness ==
    \E rq, rp \in Requests :
        /\ rq.pc = "returned" /\ rq.r.Method = GET
        /\ rp.pc = "returned" /\ rp.r.Method = get
        /\ rp.k = rq.k
        /\ Count(metrics[rq.k].requests.v, [code |-> Code200, method |-> get]) = 2

\* C4: no step of a request for which the base transport returned an error
\* changes the completion counter, the request-size histogram or the
\* response-size histogram
C4_FailureLeavesCountAndSizes ==
    [][\A rq \in Requests :
          (Failed(rq) /\ CopiesIn(rq, reqs') < CopiesIn(rq, reqs)) =>
              /\ metrics'[rq.k].requests.v = metrics[rq.k].requests.v
              /\ metrics'[rq.k].requestSize.v = metrics[rq.k].requestSize.v
              /\ metrics'[rq.k].responseContentLength.v =
                     metrics[rq.k].responseContentLength.v]_vars

\* a failed request has gone through every layer and its client's counter and
\* size histograms are empty
C4_Witness ==
    \E rq \in Requests :
        /\ rq.pc = "returned" /\ rq.baseErr # Nil
        /\ Total(metrics[rq.k].requests.v) = 0
        /\ Total(metrics[rq.k].requestSize.v) = 0
        /\ Total(metrics[rq.k].responseContentLength.v) = 0
        /\ metrics[rq.k].inflight.v = 0

\* C5: what a layer returns, and what the caller gets, is the pair the base
\* transport returned, and the base transport is called once per request
C5_PairPassedThrough ==
    \A rq \in Requests :
        /\ rq.baseCalls = 1
        /\ rq.pc \in {"up", "returned"} => rq.resp = rq.baseResp /\ rq.err = rq.baseErr

\* one caller got the base transport's error and another its response of
\* unknown length
C5_Witness ==
    \E rq, rp \in Requests :
        /\ rq.pc = "returned" /\ rq.err = "context canceled" /\ rq.resp = NilPtr
        /\ rp.pc = "returned" /\ rp.err = Nil
        /\ rp.resp = Ptr([StatusCode |-> 404, ContentLength |-> -1])

\* the content lengths the base transport declares
ContentLengths == {b.resp[1].ContentLength : b \in {x \in Behaviours : x.resp # NilPtr}}

\* C11: the response-size histogram holds, in the series (status code,
\* lower-cased method) and at the value v, one observation per answered request
\* of that series whose response declared the content length v, -1 included,
\* and no other observation
C11_ResponseSizeAsDeclared ==
    \A k \in Clients :
        /\ DOMAIN metrics[k].responseContentLength.v \subseteq AllSeries \X ContentLengths
        /\ \A s \in AllSeries : \A v \in ContentLengths :
              Count(metrics[k].responseContentLength.v, <<s, v>>) =
                  NumberOf({rq \in Requests : /\ Passed(rq, "responseContentLength")
                                              /\ rq.k = k
                                              /\ Succeeded(rq)
                                              /\ SeriesOf(rq.baseResp[1].StatusCode,
                                                          rq.r.Method) = s
                                              /\ rq.baseResp[1].ContentLength = v})

\* a response of unknown length and one of 42 bytes have returned through
\* the same client, and its histogram holds the values -1 and 42 once each
C11_Witness ==
    \E rq, rp \in Requests :
        /\ rq.pc = "returned" /\ rq.baseErr = Nil /\ rq.baseResp[1].ContentLength = -1
        /\ rp.pc = "returned" /\ rp.baseErr = Nil /\ rp.baseResp[1].ContentLength = 42
        /\ rp.k = rq.k /\ rq.r.Method = GET /\ rp.r.Method = GET
        /\ Count(metrics[rq.k].responseContentLength.v, <<[code |-> Code404, method |-> get], -1>>) = 1
        /\ Count(metrics[rq.k].responseContentLength.v, <<[code |-> Code200, method |-> get], 42>>) = 1
        /\ Total(metrics[rq.k].responseContentLength.v) = 2

\* C12: the request-size histogram holds, in the series (status code,
\* lower-cased method), one observation per answered request of that series,
\* at the value computeApproximateRequestSize gives for that request, and no
\* other observation
C12_RequestSizeIsEstimate ==
    \A k \in Clients :
        /\ \A key \in DOMAIN metrics[k].requestSize.v :
              /\ key[1] \in AllSeries
              /\ \E rq \in Requests : key[2] = computeApproximateRequestSize(rq.r)
        /\ \A s \in AllSeries :
              \A v \in {computeApproximateRequestSize(rq.r) : rq \in Requests} :
                Count(metrics[k].requestSize.v, <<s, v>>) =
                    NumberOf({rq \in Requests : /\ Passed(rq, "requestSize")
                                                /\ rq.k = k
                                                /\ Succeeded(rq)
                                                /\ SeriesOf(rq.baseResp[1].StatusCode,
                                                            rq.r.Method) = s
                                                /\ computeApproximateRequestSize(rq.r) = v})

\* a GET for http://a.io/ answered 404 has passed the request-size layer and
\* is still inside the chain; the histogram of its client holds the value 27
\* (12 bytes of URL, 3 of method, 8 of protocol, 4 of host) once
C12_Witness ==
    \E rq \in Requests :
        /\ rq.pc = "up" /\ Passed(rq, "requestSize") /\ rq.baseErr = Nil
        /\ rq.r.Method = GET
        /\ Count(metrics[rq.k].requestSize.v, <<[code |-> Code404, method |-> get], 27>>) = 1
        /\ Total(metrics[rq.k].requestSize.v) = 1

\* the requests that take part in the step: the one that entered or moved on
Stepping == {rq \in Requests \cup BagToSet(reqs') : CopiesIn(rq, reqs') # CopiesIn(rq, reqs)}

\* every instrument of the Metric Set of call k carries the recipient of that
\* call as its one constant label
SameConstLabels(k) ==
    \A f \in DOMAIN metrics[k] :
        metrics[k][f].desc.ConstLabels = [recipient |-> calls[k].recipient]

\* C13: a step of a request through the client of one ForRecipient call
\* leaves the Metric Set of every other call as it was, and every instrument
\* of a Metric Set carries the same constant label set, the recipient
C13_OnlyOwnMetricSet ==
    /\ [](\A k \in Clients : SameConstLabels(k))
    /\ [][\A rq \in Stepping : \A j \in Clients \ {rq.k} : metrics'[j] = metrics[j]]_vars

\* requests answered through the clients for "billing" and for "orders" have
\* returned, one each, and each Metric Set counts one request while the
\* third holds nothing
C13_Witness ==
    \E rq, rp \in Requests :
        /\ rq.pc = "returned" /\ rq.baseErr = Nil /\ calls[rq.k].recipient = "billing"
        /\ rp.pc = "returned" /\ rp.baseErr = Nil /\ calls[rp.k].recipient = "orders"
        /\ calls[rq.k].err = Nil
        /\ Total(metrics[rq.k].requests.v) = 1
        /\ Total(metrics[rp.k].requests.v) = 1
        /\ \A j \in Clients \ {rq.k, rp.k} : metrics[j] = NewOutgoingInstrumentation(namespace, [recipient |-> calls[j].recipient])

\* the positions of an event in a request's history
Positions(log, e) == {j \in 1..Len(log) : log[j] = e}

GaugeInc == <<"pre", "inflight">>
GaugeDec == <<"post", "inflight">>

\* C14: every chain is, outermost first, in-flight gauge, completion counter,
\* phase trace, request size, response size, duration, around the base
\* transport; and in the history of every request the gauge increment is the
\* first event, the gauge decrement is the last event of a request that has
\* returned and absent before, and the one call of the base transport and
\* every other observation lie after the increment and before the decrement
C14_GaugeAroundAllOtherWork ==
    /\ \A k \in Clients :
          /\ Layers(k) = <<"inflight", "counter", "trace", "requestSize",
                           "responseContentLength", "duration">>
          /\ calls[k].client[1].Transport.next = BaseTransport(base)
    /\ \A rq \in Requests :
          /\ Positions(rq.log, GaugeInc) = {1}
          /\ Positions(rq.log, GaugeDec) = IF rq.pc = "returned" THEN {Len(rq.log)} ELSE {}
          /\ Cardinality(Positions(rq.log, <<"base", "call">>)) = 1
          /\ \A j \in 1..Len(rq.log) :
                rq.log[j] \notin {GaugeInc, GaugeDec} =>
                    /\ j > 1
                    /\ rq.pc = "returned" => j < Len(rq.log)

\* an answered request has returned: its history starts with the gauge
\* increment, ends with the gauge decrement, and holds between them the call
\* of the base transport, the four phase hooks and the four observations
C14_Witness ==
    \E rq \in Requests :
        /\ rq.pc = "returned" /\ rq.baseErr = Nil
        /\ Len(rq.log) = 12
        /\ rq.log[1] = GaugeInc /\ rq.log[2] = <<"base", "call">>
        /\ rq.log[3] = <<"hook", "DNSStart">>
        /\ rq.log[7] = <<"base", "return">>
        /\ rq.log[8] = <<"post", "duration">>
        /\ rq.log[11] = <<"post", "counter">>
        /\ rq.log[12] = GaugeDec

\* event e is in the history and, when f is there too, before it
Before(log, e, f) ==
    /\ Positions(log, e) # {}
    /\ \A j \in Positions(log, e) : \A l \in Positions(log, f) : j < l

\* C17: in the history of a request, the response-size observation comes
\* before the request-size observation, that before the counter increment,
\* and that after the gauge increment and before the gauge decrement, and an
\* answered request that has returned has all of them; in every state the
\* counter of a Metric Set holds at most as many increments as its
\* request-size histogram holds observations, and that at most as many as its
\* response-size histogram, and the three are equal when no request is
\* inside the chain of its client
C17_CountAtMostSizes ==
    /\ \A rq \in Requests :
          LET cnt == <<"post", "counter">>
              rqs == <<"post", "requestSize">>
              rsp == <<"post", "responseContentLength">>
          IN /\ Positions(rq.log, cnt) # {} =>
                    /\ Before(rq.log, rqs, cnt)
                    /\ Before(rq.log, GaugeInc, cnt)
                    /\ Before(rq.log, cnt, GaugeDec)
             /\ Positions(rq.log, rqs) # {} => Before(rq.log, rsp, rqs)
             /\ (rq.pc = "returned" /\ rq.baseErr = Nil) =>
                    /\ Cardinality(Positions(rq.log, cnt)) = 1
                    /\ Cardinality(Positions(rq.log, rqs)) = 1
                    /\ Cardinality(Positions(rq.log, rsp)) = 1
    /\ \A k \in Clients :
          /\ Total(metrics[k].requests.v) <= Total(metrics[k].requestSize.v)
          /\ Total(metrics[k].requestSize.v) <= Total(metrics[k].responseContentLength.v)
          /\ (\A rq \in Requests : rq.k = k => ~InFlight(rq)) =>
                /\ Total(metrics[k].requests.v) = Total(metrics[k].requestSize.v)
                /\ Total(metrics[k].requestSize.v) = Total(metrics[k].responseContentLength.v)

\* two answered requests are inside the chain of one client, one past the
\* request-size layer and one past the response-size layer only: the counter
\* holds nothing, the request-size histogram one observation and the
\* response-size histogram two
C17_Witness ==
    \E rq, rp \in Requests :
        /\ rq.k = rp.k /\ InFlight(rq) /\ InFlight(rp)
        /\ Passed(rq, "requestSize") /\ ~Passed(rq, "counter")
        /\ Passed(rp, "responseContentLength") /\ ~Passed(rp, "requestSize")
        /\ Total(metrics[rq.k].requests.v) = 0
        /\ Total(metrics[rq.k].requestSize.v) = 1
        /\ Total(metrics[rq.k].responseContentLength.v) = 2

\* the call was rejected by the registry
Rejected(k) == calls[k].err # Nil

\* C18: a call whose registration was rejected has returned, with the error,
\* a client with the whole chain around the base transport, observing into a
\* Metric Set the registry does not hold; and a step of a request through
\* that client changes neither what a collection from the registry reports
\* nor the Metric Set registered earlier for the same recipient
C18_RejectedClientIsUnreported ==
    /\ [](\A k \in Clients : Rejected(k) =>
             /\ calls[k].client # NilPtr
             /\ Layers(k) = <<"inflight", "counter", "trace", "requestSize",
                              "responseContentLength", "duration">>
             /\ calls[k].client[1].Transport.next = BaseTransport(base)
             /\ MetricSetOf(k) = k
             /\ k \notin DOMAIN Gather(registry, metrics)
             /\ \E j \in 1..(k - 1) :
                   /\ calls[j].recipient = calls[k].recipient
                   /\ j \in DOMAIN Gather(registry, metrics))
    /\ [][\A rq \in Stepping : Rejected(rq.k) =>
             /\ Gather(registry', metrics') = Gather(registry, metrics)
             /\ \A j \in Clients \ {rq.k} :
                   calls[j].recipient = calls[rq.k].recipient => metrics'[j] = metrics[j]]_vars

\* two requests answered through the client of the rejected second call for
\* "billing" have returned: its Metric Set counts two requests, and a
\* collection from the registry reports the sets of the two other calls, both
\* empty
C18_Witness ==
    \E rq, rp \in Requests :
        /\ rq.pc = "returned" /\ rq.baseErr = Nil /\ rp.pc = "returned" /\ rp.baseErr = Nil
        /\ rq.k = rp.k /\ Rejected(rq.k) /\ calls[rq.k].recipient = "billing"
        /\ Total(metrics[rq.k].requests.v) = 2
        /\ Total(metrics[rq.k].duration.v) = 2
        /\ DOMAIN Gather(registry, metrics) = Clients \ {rq.k}
        /\ \A j \in DOMAIN Gather(registry, metrics) :
              Gather(registry, metrics)[j] =
                  Collect(NewOutgoingInstrumentation(namespace, [recipient |-> calls[j].recipient]))

-----
(* Properties of the client factory (SpecFactory) *)

\* C6: a ForRecipient call whose recipient is that of an earlier successful
\* call returns an error, and one whose recipient differs from that of every
\* earlier call succeeds, whatever calls came before it
C6_DuplicateRecipientRejected ==
    \A n \in 1..Len(calls) :
        /\ (\E m \in 1..(n - 1) : calls[m].recipient = calls[n].recipient /\ calls[m].err = Nil)
              => calls[n].err # Nil
        /\ (\A m \in 1..(n - 1) : calls[m].recipient # calls[n].recipient)
              => calls[n].err = Nil

\* a call succeeded, a second for the same recipient was rejected, and a
\* third for another recipient succeeded after the rejection
C6_Witness ==
    /\ Len(calls) = 3
    /\ calls[1].err = Nil
    /\ calls[2].recipient = calls[1].recipient /\ calls[2].err # Nil
    /\ calls[3].recipient # calls[1].recipient /\ calls[3].err = Nil

\* C7: the base client is as it was before the first call, and every returned
\* client has its redirect policy, cookie jar and timeout, and a chain around
\* its transport, or around the default transport when it has none
C7_BaseClientPreserved ==
    /\ base = base0
    /\ \A n \in 1..Len(calls) :
          calls[n].client # NilPtr =>
              LET cl == calls[n].client[1]
              IN /\ cl.CheckRedirect = base0.CheckRedirect
                 /\ cl.Jar = base0.Jar
                 /\ cl.Timeout = base0.Timeout
                 /\ cl.Transport.layers # <<>>
                 /\ cl.Transport.next =
                        IF base0.Transport = Nil THEN DefaultTransport ELSE base0.Transport

\* two clients were built from a base client with a policy, a jar, a timeout
\* and no transport, and both wrap the default transport
C7_Witness ==
    /\ Len(calls) >= 2
    /\ base0 = [CheckRedirect |-> "policy", Jar |-> "jar", Timeout |-> 30, Transport |-> Nil]
    /\ \A n \in 1..Len(calls) :
          /\ calls[n].client # NilPtr
          /\ calls[n].client[1].Timeout = 30
          /\ calls[n].client[1].Transport.next = DefaultTransport

\* C8 as stated: every call registers its Metric Set once, it returns an error
\* exactly when that registration is rejected, and a rejected call yields no
\* usable client
C8_RejectedCallYieldsNoClient ==
    \A n \in 1..Len(calls) :
        /\ Cardinality({a \in 1..Len(registry.attempts) : registry.attempts[a] = n}) = 1
        /\ calls[n].err # Nil <=> n \notin registry.collectors
        /\ calls[n].err # Nil => calls[n].client = NilPtr

\* C15: Describe and Collect of a Metric Set each visit every instrument of
\* the set exactly once, and the n-th descriptor Describe sends is that of the
\* n-th instrument Collect sends the value of
C15_SameOrderEachOnce ==
    \A k \in 1..Len(metrics) :
        LET i == metrics[k]
        IN /\ \A f \in DOMAIN i :
                 /\ Cardinality({n \in 1..Len(DescribeOrder) : DescribeOrder[n] = f}) = 1
                 /\ Cardinality({n \in 1..Len(CollectOrder) : CollectOrder[n] = f}) = 1
           /\ Len(Describe(i)) = Len(Collect(i))
           /\ \A n \in 1..Len(Describe(i)) :
                 /\ CollectOrder[n] \in DOMAIN i
                 /\ Describe(i)[n] = i[CollectOrder[n]].desc
                 /\ Collect(i)[n] = i[CollectOrder[n]].v

\* a Metric Set was built for "audit": Describe sends the duration descriptor
\* first, the in-flight descriptor fifth and the response-size descriptor
\* last, and Collect sends the gauge's value fifth
C15_Witness ==
    /\ Len(calls) >= 1 /\ calls[1].recipient = "audit"
    /\ Describe(metrics[1])[1].Name = "request_duration_histogram_seconds"
    /\ Describe(metrics[1])[5].Name = "in_flight_requests"
    /\ Describe(metrics[1])[7].Name = "response_content_length_histogram"
    /\ Collect(metrics[1])[5] = 0
    /\ Collect(metrics[1])[7] = NoSeries

\* the instruments of a Metric Set of one kind
OfKind(i, kind) == {f \in DOMAIN i : i[f].kind = kind}

\* Describe sends the descriptor of each instrument of the set once and no other
DescribesEach(i) ==
    /\ Len(Describe(i)) = Cardinality(DOMAIN i)
    /\ {Describe(i)[n] : n \in 1..Len(Describe(i))} = {i[f].desc : f \in DOMAIN i}
    /\ Cardinality({i[f].desc : f \in DOMAIN i}) = Cardinality(DOMAIN i)

\* C16 as stated: a Metric Set has six instruments, one counter, four
\* histograms and one gauge, and Describe sends the descriptors of these six
C16_SixInstruments ==
    \A k \in 1..Len(metrics) :
        /\ Cardinality(DOMAIN metrics[k]) = 6
        /\ Cardinality(OfKind(metrics[k], "counter")) = 1
        /\ Cardinality(OfKind(metrics[k], "histogram")) = 4
        /\ Cardinality(OfKind(metrics[k], "gauge")) = 1
        /\ DescribesEach(metrics[k])

\* C16 amended: a Metric Set has seven instruments, one counter, five
\* histograms (request size, response size, duration, DNS phases, TLS phases)
\* and one gauge, and Describe sends the descriptors of these seven and no other
C16_SevenInstruments ==
    \A k \in 1..Len(metrics) :
        /\ Cardinality(DOMAIN metrics[k]) = 7
        /\ Cardinality(OfKind(metrics[k], "counter")) = 1
        /\ OfKind(metrics[k], "histogram") =
               {"requestSize", "responseContentLength", "duration", "dnsDuration", "tlsDuration"}
        /\ Cardinality(OfKind(metrics[k], "gauge")) = 1
        /\ DescribesEach(metrics[k])

\* two Metric Sets were built, the second rejected by the registry, and
\* Describe sends seven descriptors for each
C16_Witness ==
    /\ Len(calls) = 2 /\ calls[2].err # Nil
    /\ \A k \in 1..2 : Len(Describe(metrics[k])) = 7 /\ Cardinality(DOMAIN metrics[k]) = 7

-----------------------------------------------------------------------------
(* Properties of the size estimator (SpecSize) *)

\* C9 as stated: computeApproximateRequestSize returns a non-negative integer
\* for every request, whatever its declared content length
C9_SizeNonNegative ==
    sres.op # "none" => sres.after >= 0

\* C10: appending one byte to a header value of a request increases the
\* result of computeApproximateRequestSize by exactly one
C10_AppendAddsOne ==
    sres.op = "append" => sres.after = sres.before + 1

\* a second byte was appended to the second value of a header of a request of
\* unknown length, and the estimate went up by one
C10_Witness ==
    /\ sres.op = "append" /\ sres.n = 2
    /\ sreq.ContentLength = -1
    /\ Len(sreq.Header[HeaderXA]) = 2 /\ Len(sreq.Header[HeaderXA][2]) = 4
    /\ sres.after = sres.before + 1

=============================================================================
